---- MODULE Spec2Model ----
(***************************************************************************)
(* Model of VoiceBasedCollegeNavigation.py: the campus graph, the          *)
(* breadth-first find_path, the navigate handler with its voice threads    *)
(* and the map renderer.                                                   *)
(***************************************************************************)
EXTENDS Integers, Sequences, FiniteSets, TLC

VARIABLES
    \* ---- one run of find_path(start, end) ----
    start, end, queue, visited, fp_pc, fp_ret,
    \* ---- module globals ----
    voice_enabled, engine, threads,
    \* ---- navigate(start_location, end_location, enable_voice), per call ----
    pc, start_location, end_location, enable_voice, path, step_i,
    voice_instructions, result, said, rendered

fp_vars == <<start, end, queue, visited, fp_pc, fp_ret>>
nav_vars == <<voice_enabled, engine, threads, pc, start_location, end_location,
              enable_voice, path, step_i, voice_instructions, result,
              said, rendered>>
vars == <<start, end, queue, visited, fp_pc, fp_ret,
          voice_enabled, engine, threads, pc, start_location, end_location,
          enable_voice, path, step_i, voice_instructions, result,
          said, rendered>>

-----------------------------------------------------------------------------
(* The campus map                                                          *)

college_map ==
    ("Gate 1" :> <<"Cafeteria", "Gate 2">>) @@
    ("Gate 2" :> <<"Gate 1", "CSE Block", "Boys Hostel">>) @@
    ("Cafeteria" :> <<"Gate 1", "BTech Block">>) @@
    ("BTech Block" :> <<"Cafeteria", "Santosh Library", "Ravi Canteen">>) @@
    ("Santosh Library" :> <<"BTech Block">>) @@
    ("Ravi Canteen" :> <<"BTech Block", "Boys Hostel">>) @@
    ("Boys Hostel" :> <<"Ravi Canteen", "Gate 2", "CSE Block">>) @@
    ("CSE Block" :> <<"Gate 2", "Boys Hostel">>)

Locations == DOMAIN college_map

\* Strings that are not keys of college_map, and the empty selection.
AbsentKeys == {"Nowhere", "Elsewhere"}
Empty == ""
Keys == Locations \cup AbsentKeys \cup {Empty}

\* find_path's None. find_path never returns the empty list, and its caller
\* tests the result with `not path`, which None and [] both satisfy.
NotFound == <<>>

\* college_map.get(node, [])
Neighbors(node) == IF node \in DOMAIN college_map THEN college_map[node] ELSE <<>>

Last(s) == s[Len(s)]

-----------------------------------------------------------------------------
(* find_path: breadth-first search over whole paths                        *)

\* The state of the search at the head of the while loop.
SearchStart(s) == [queue |-> <<<<s>>>>, visited |-> {}, ret |-> NotFound, done |-> FALSE]

\* A depth-first variant: the new paths go to the front of the queue.
WhileStepDepthFirst(s, e) ==
    IF s.queue = <<>>
    THEN [s EXCEPT !.done = TRUE, !.ret = NotFound]
    ELSE LET p == Head(s.queue)
             node == Last(p)
             nbrs == Neighbors(node)
         IN  IF node = e
             THEN [s EXCEPT !.queue = Tail(s.queue), !.done = TRUE, !.ret = p]
             ELSE IF node \notin s.visited
             THEN [s EXCEPT !.queue = [k \in 1..Len(nbrs) |-> Append(p, nbrs[k])]
                                          \o Tail(s.queue),
                            !.visited = s.visited \cup {node}]
             ELSE [s EXCEPT !.queue = Tail(s.queue)]

\* A variant that marks the neighbours visited when it enqueues them.
WhileStepMarkOnEnqueue(s, e) ==
    IF s.queue = <<>>
    THEN [s EXCEPT !.done = TRUE, !.ret = NotFound]
    ELSE LET p == Head(s.queue)
             node == Last(p)
             nbrs == Neighbors(node)
         IN  IF node = e
             THEN [s EXCEPT !.queue = Tail(s.queue), !.done = TRUE, !.ret = p]
             ELSE IF node \notin s.visited
             THEN [s EXCEPT !.queue = Tail(s.queue)
                                          \o [k \in 1..Len(nbrs) |-> Append(p, nbrs[k])],
                            !.visited = s.visited \cup {node}
                                          \cup {nbrs[k] : k \in 1..Len(nbrs)}]
             ELSE [s EXCEPT !.queue = Tail(s.queue)]

\* One evaluation of `while queue:` and, when the queue is not empty, one
\* iteration of the body; when it is empty, the `return None` after the loop.
WhileStep(s, e) ==
    IF s.queue = <<>>
    THEN [s EXCEPT !.done = TRUE, !.ret = NotFound]
    ELSE LET p == Head(s.queue)
             node == Last(p)
             nbrs == Neighbors(node)
         IN  IF node = e
             THEN [s EXCEPT !.queue = Tail(s.queue), !.done = TRUE, !.ret = p]
             ELSE IF node \notin s.visited
             THEN [s EXCEPT !.queue = Tail(s.queue)
                                          \o [k \in 1..Len(nbrs) |-> Append(p, nbrs[k])],
                            !.visited = s.visited \cup {node}]
             ELSE [s EXCEPT !.queue = Tail(s.queue)]

RECURSIVE Search(_, _)
Search(s, e) == IF s.done THEN s ELSE Search(WhileStep(s, e), e)

\* find_path up to the loop: the two early returns, else the initial queue.
FindPathEntry(s, e) ==
    IF s = e
    THEN [queue |-> <<>>, visited |-> {}, ret |-> <<s>>, done |-> TRUE]
    ELSE IF s \notin DOMAIN college_map \/ e \notin DOMAIN college_map
    THEN [queue |-> <<>>, visited |-> {}, ret |-> NotFound, done |-> TRUE]
    ELSE SearchStart(s)

\* find_path(s, e) run to its return: the value returned, with the search
\* state it leaves behind.
FindPathRun(s, e) ==
    LET s0 == FindPathEntry(s, e)
    IN  IF s0.done THEN s0 ELSE Search(s0, e)

find_path(s, e) == FindPathRun(s, e).ret

\* ---- find_path as a process: one call, one loop iteration per step ----

\* No call of find_path under way.
FindPathIdle ==
    /\ start = Empty
    /\ end = Empty
    /\ fp_pc = "idle"
    /\ queue = <<>>
    /\ visited = {}
    /\ fp_ret = NotFound

FindPathInit ==
    /\ start \in Keys
    /\ end \in Keys
    /\ fp_pc = "call"
    /\ queue = <<>>
    /\ visited = {}
    /\ fp_ret = NotFound

FindPathCall ==
    /\ fp_pc = "call"
    /\ LET s0 == FindPathEntry(start, end)
       IN  /\ queue' = s0.queue
           /\ visited' = s0.visited
           /\ fp_ret' = s0.ret
           /\ fp_pc' = IF s0.done THEN "done" ELSE "loop"
    /\ UNCHANGED <<start, end>>
    /\ UNCHANGED nav_vars

FindPathLoop ==
    /\ fp_pc = "loop"
    /\ LET s1 == WhileStep([queue |-> queue, visited |-> visited,
                            ret |-> fp_ret, done |-> FALSE], end)
       IN  /\ queue' = s1.queue
           /\ visited' = s1.visited
           /\ fp_ret' = s1.ret
           /\ fp_pc' = IF s1.done THEN "done" ELSE "loop"
    /\ UNCHANGED <<start, end>>
    /\ UNCHANGED nav_vars

-----------------------------------------------------------------------------
(* navigate, speak_async and the map renderer                              *)

\* The navigate calls of the model: call 1 alone, or all of them at once.
MaxCalls == 2
Calls == 1..MaxCalls

HopDistance == 100
WalkingSpeed == 80

\* What a formatted string interpolates: its template and its arguments.
Text(kind, i, a, b) == [kind |-> kind, i |-> i, place |-> a, place2 |-> b]

\* A tempfile name, and the None that stands for no map.
MapFile == "route.png"
NoFile == "None"

\* How the rendering may fail: while drawing (outside the try block) or while
\* saving (inside it).
RenderOutcomes == {"ok", "draw_error", "save_error"}

\* A distance that counts locations, not hops.
calculate_distance_per_location(p) ==
    IF p = NotFound THEN 0 ELSE Len(p) * HopDistance

calculate_distance(p) ==
    IF p = NotFound \/ Len(p) < 2 THEN 0 ELSE (Len(p) - 1) * HopDistance

\* generate_map_matplotlib(p) under the given outcome of the plotting
\* library: an exception out of the function, else the value returned.
generate_map_matplotlib(p, outcome) ==
    IF p = NotFound THEN [raised |-> FALSE, file |-> NoFile]
    ELSE IF outcome = "draw_error" THEN [raised |-> TRUE, file |-> NoFile]
    ELSE IF outcome = "save_error" THEN [raised |-> FALSE, file |-> NoFile]
    ELSE [raised |-> FALSE, file |-> MapFile]

\* The three values navigate returns.
Result(message, file, text) == [message |-> message, map_file |-> file, voice_text |-> text]

Message(kind, a, b, p) ==
    [kind |-> kind, place |-> a, place2 |-> b, route |-> p, steps |-> Len(p),
     distance |-> calculate_distance(p),
     minutes |-> calculate_distance(p) \div WalkingSpeed]

NoResult == Result(Message("none", "", "", <<>>), NoFile, <<>>)

\* "\n".join(voice_instructions), or the notice that stands for an empty list.
VoiceText(instructions) ==
    IF instructions # <<>> THEN instructions
    ELSE <<Text("voice_disabled", 0, "", "")>>

\* speak_async(text) called by call c: with the engine available a daemon
\* thread is started for the text, else nothing happens.
speak_async(c, text) ==
    /\ said' = [said EXCEPT ![c] = Append(@, text)]
    /\ threads' = IF voice_enabled
                  THEN threads \cup {[call |-> c, n |-> Len(said[c]) + 1, text |-> text]}
                  ELSE threads

NavInit ==
    /\ voice_enabled \in BOOLEAN
    /\ engine = <<>>
    /\ threads = {}
    /\ pc = [c \in Calls |-> "idle"]
    /\ start_location = [c \in Calls |-> Empty]
    /\ end_location = [c \in Calls |-> Empty]
    /\ enable_voice = [c \in Calls |-> FALSE]
    /\ path = [c \in Calls |-> NotFound]
    /\ step_i = [c \in Calls |-> 0]
    /\ voice_instructions = [c \in Calls |-> <<>>]
    /\ result = [c \in Calls |-> NoResult]
    /\ said = [c \in Calls |-> <<>>]
    /\ rendered = [c \in Calls |-> <<>>]

Return(c, r) ==
    /\ result' = [result EXCEPT ![c] = r]
    /\ pc' = [pc EXCEPT ![c] = "returned"]

\* The validation with its two checks in the other order.
ValidationInvalidFirst(s, e) ==
    IF s \notin DOMAIN college_map \/ e \notin DOMAIN college_map THEN "invalid"
    ELSE IF s = Empty \/ e = Empty THEN "missing"
    ELSE "ok"

\* The two validation checks at the top of navigate, in their order.
Validation(s, e) ==
    IF s = Empty \/ e = Empty THEN "missing"
    ELSE IF s \notin DOMAIN college_map \/ e \notin DOMAIN college_map THEN "invalid"
    ELSE "ok"

\* A navigate that narrates whatever the option says.
AfterRouteAlwaysNarrate(v) == "narrate_start"

\* `if enable_voice:` once the route is found: the narration, else straight
\* to the map.
AfterRoute(v) == IF v THEN "narrate_start" ELSE "render"

\* navigate(s, e, v) from its entry to the first narration step: the
\* validation, the same-location answer, find_path and the no-path answer.
Navigate(c, s, e, v) ==
    /\ pc[c] = "idle"
    /\ start_location' = [start_location EXCEPT ![c] = s]
    /\ end_location' = [end_location EXCEPT ![c] = e]
    /\ enable_voice' = [enable_voice EXCEPT ![c] = v]
    /\ IF Validation(s, e) # "ok"
       THEN /\ Return(c, Result(Message(Validation(s, e), "", "", <<>>), NoFile, <<>>))
            /\ UNCHANGED <<path, said, threads>>
       ELSE IF s = e
       THEN /\ IF v THEN speak_async(c, Text("already", 0, s, ""))
                    ELSE UNCHANGED <<said, threads>>
            /\ Return(c, Result(Message("already", s, "", <<>>), NoFile, <<>>))
            /\ UNCHANGED path
       ELSE LET p == find_path(s, e)
            IN  /\ path' = [path EXCEPT ![c] = p]
                /\ IF p = NotFound
                   THEN /\ IF v THEN speak_async(c, Text("no_path", 0, s, e))
                                ELSE UNCHANGED <<said, threads>>
                        /\ Return(c, Result(Message("no_path", s, e, <<>>), NoFile, <<>>))
                   ELSE /\ pc' = [pc EXCEPT ![c] = AfterRoute(v)]
                        /\ UNCHANGED <<result, said, threads>>
    /\ UNCHANGED <<voice_enabled, engine, step_i, voice_instructions, rendered>>
    /\ UNCHANGED fp_vars

\* The announcement of the route and the first instruction.
NarrateStart(c) ==
    /\ pc[c] = "narrate_start"
    /\ speak_async(c, Text("starting", 0, start_location[c], end_location[c]))
    /\ voice_instructions' = [voice_instructions EXCEPT ![c] =
                                  Append(@, Text("start", 0, start_location[c], ""))]
    /\ step_i' = [step_i EXCEPT ![c] = 1]
    /\ pc' = [pc EXCEPT ![c] = "narrate_step"]
    /\ UNCHANGED <<voice_enabled, engine, start_location, end_location, enable_voice,
                   path, result, rendered>>
    /\ UNCHANGED fp_vars

\* One iteration of `for i, place in enumerate(path[1:], 1)`.
NarrateStep(c) ==
    /\ pc[c] = "narrate_step"
    /\ step_i[c] <= Len(path[c]) - 1
    /\ LET place == path[c][step_i[c] + 1]
       IN  /\ speak_async(c, Text("step", step_i[c], place, ""))
           /\ voice_instructions' = [voice_instructions EXCEPT ![c] =
                                         Append(@, Text("step", step_i[c], place, ""))]
    /\ step_i' = [step_i EXCEPT ![c] = @ + 1]
    /\ UNCHANGED <<voice_enabled, engine, pc, start_location, end_location, enable_voice,
                   path, result, rendered>>
    /\ UNCHANGED fp_vars

\* An ending that announces the arrival and lists no last instruction.
NarrateEndNoInstruction(c) ==
    /\ pc[c] = "narrate_step"
    /\ step_i[c] > Len(path[c]) - 1
    /\ speak_async(c, Text("reached", 0, "", ""))
    /\ pc' = [pc EXCEPT ![c] = "render"]
    /\ UNCHANGED <<voice_enabled, engine, start_location, end_location, enable_voice,
                   path, step_i, voice_instructions, result, rendered>>
    /\ UNCHANGED fp_vars

\* After the loop: the arrival announcement and the last instruction.
NarrateEnd(c) ==
    /\ pc[c] = "narrate_step"
    /\ step_i[c] > Len(path[c]) - 1
    /\ speak_async(c, Text("reached", 0, "", ""))
    /\ voice_instructions' = [voice_instructions EXCEPT ![c] =
                                  Append(@, Text("destination", 0, end_location[c], ""))]
    /\ pc' = [pc EXCEPT ![c] = "render"]
    /\ UNCHANGED <<voice_enabled, engine, start_location, end_location, enable_voice,
                   path, step_i, result, rendered>>
    /\ UNCHANGED fp_vars

\* The map is generated and the result composed and returned, unless the
\* drawing raises and the exception leaves navigate.
RenderAndReturn(c, outcome) ==
    /\ pc[c] = "render"
    /\ rendered' = [rendered EXCEPT ![c] = Append(@, path[c])]
    /\ LET m == generate_map_matplotlib(path[c], outcome)
       IN  IF m.raised
           THEN /\ pc' = [pc EXCEPT ![c] = "raised"]
                /\ UNCHANGED result
           ELSE Return(c, Result(Message("success", "", "", path[c]), m.file,
                                 VoiceText(voice_instructions[c])))
    /\ UNCHANGED <<voice_enabled, engine, threads, start_location, end_location,
                   enable_voice, path, step_i, voice_instructions, said>>
    /\ UNCHANGED fp_vars

\* The body of one voice thread: engine.say(text) and engine.runAndWait(),
\* or an exception of the engine, which the thread prints and drops.
Speak(t, ok) ==
    /\ t \in threads
    /\ threads' = threads \ {t}
    /\ engine' = IF ok THEN Append(engine, t) ELSE engine
    /\ UNCHANGED <<voice_enabled, pc, start_location, end_location, enable_voice, path,
                   step_i, voice_instructions, result, said, rendered>>
    /\ UNCHANGED fp_vars

-----------------------------------------------------------------------------
(* Specifications                                                          *)

\* One request: navigate called once, with any selection.
Init == FindPathIdle /\ NavInit

Next ==
    \/ \E s \in Keys, e \in Keys, v \in BOOLEAN : Navigate(1, s, e, v)
    \/ NarrateStart(1)
    \/ NarrateStep(1)
    \/ NarrateEnd(1)
    \/ \E outcome \in RenderOutcomes : RenderAndReturn(1, outcome)
    \/ \E t \in threads, ok \in BOOLEAN : Speak(t, ok)

Spec == Init /\ [][Next]_vars

\* find_path called directly, with any two strings.
FindPathSpecInit == FindPathInit /\ NavInit

FindPathNext ==
    \/ FindPathCall
    \/ FindPathLoop

FindPathSpec == FindPathSpecInit /\ [][FindPathNext]_vars

\* Several requests at once, between neighbouring locations.
ConcurrentKeys == {"Gate 1", "Cafeteria"}

ConcurrentNext ==
    \/ \E c \in Calls, s \in ConcurrentKeys, e \in ConcurrentKeys, v \in BOOLEAN :
            Navigate(c, s, e, v)
    \/ \E c \in Calls : NarrateStart(c)
    \/ \E c \in Calls : NarrateStep(c)
    \/ \E c \in Calls : NarrateEnd(c)
    \/ \E c \in Calls, outcome \in RenderOutcomes : RenderAndReturn(c, outcome)
    \/ \E t \in threads, ok \in BOOLEAN : Speak(t, ok)

ConcurrentSpec == Init /\ [][ConcurrentNext]_vars

-----------------------------------------------------------------------------
(* Properties of find_path (FindPathSpec)                                  *)

\* A distance table computed without find_path: the locations within k hops
\* of a, by growing the set one hop at a time.
Adjacent(a, b) == \E k \in 1..Len(Neighbors(a)) : Neighbors(a)[k] = b

RECURSIVE Within(_, _)
Within(a, k) ==
    IF k = 0 THEN {a}
    ELSE LET w == Within(a, k - 1)
         IN  w \cup {b \in Locations : \E x \in w : Adjacent(x, b)}

Reachable(a, b) == b \in Within(a, Cardinality(Locations))

Distance(a, b) ==
    CHOOSE k \in 0..Cardinality(Locations) :
        /\ b \in Within(a, k)
        /\ \A j \in 0..(k - 1) : b \notin Within(a, j)

IsWalk(p) == \A k \in 1..(Len(p) - 1) : Adjacent(p[k], p[k + 1])

\* C1: for every pair of locations with end reachable from start, find_path
\* returns a path from start to end whose consecutive locations are adjacent
\* and whose number of edges is the distance of the independent table.
C1_ShortestPath ==
    (fp_pc = "done" /\ start \in Locations /\ end \in Locations /\ Reachable(start, end))
        => /\ fp_ret # NotFound
           /\ Head(fp_ret) = start
           /\ Last(fp_ret) = end
           /\ IsWalk(fp_ret)
           /\ Len(fp_ret) - 1 = Distance(start, end)

\* A search that ran over several levels and returned a four-hop route.
C1_Witness ==
    /\ fp_pc = "done"
    /\ start \in Locations /\ end \in Locations /\ start # end
    /\ Len(fp_ret) = 5
    /\ Cardinality(visited) >= 4

\* C3: find_path returns NotFound whenever start or end is not a key of
\* college_map, the case of start and end being the same absent key included.
C3_AbsentKeyNotFound ==
    (fp_pc = "done" /\ (start \notin Locations \/ end \notin Locations))
        => fp_ret = NotFound

\* C9: visited grows only in a loop iteration, by the last node of the path
\* that iteration dequeues, and only if that node was not visited before; the
\* neighbours enqueued are not marked; a dequeued path ending in a visited
\* node enqueues nothing.
C9_VisitedOnExpansion ==
    [][ /\ visited \subseteq visited'
        /\ visited' # visited =>
              /\ fp_pc = "loop" /\ queue # <<>>
              /\ Last(Head(queue)) \notin visited
              /\ visited' = visited \cup {Last(Head(queue))}
        /\ (fp_pc = "loop" /\ queue # <<>> /\ Len(queue') >= Len(queue)) =>
              /\ Last(Head(queue)) \notin visited
              /\ Last(Head(queue)) \in visited'
        /\ (fp_pc = "loop" /\ queue # <<>> /\ Last(Head(queue)) \in visited
              /\ Last(Head(queue)) # end) =>
              /\ queue' = Tail(queue)
              /\ fp_pc' = "loop"
      ]_vars

\* Two queued paths end in the same node, not yet visited, while the path
\* about to be dequeued ends in a node expanded before.
C9_Witness ==
    /\ fp_pc = "loop" /\ queue # <<>>
    /\ Last(Head(queue)) \in visited
    /\ \E i, j \in 1..Len(queue) :
          /\ i < j
          /\ Last(queue[i]) = Last(queue[j])
          /\ Last(queue[i]) \notin visited

-----------------------------------------------------------------------------
(* Properties of navigate (Spec)                                           *)

Returned(c) == pc[c] = "returned"
Kind(c) == result[c].message.kind
RouteReturned(c) == Returned(c) /\ Kind(c) = "success"
ErrorKinds == {"missing", "invalid", "no_path"}

\* C2: navigate reports the error of the first check that fails, in the
\* order missing location, invalid location, no path, and reports an error
\* only then; an error result carries no map and no instruction text.
C2_ValidationOrder ==
    \A c \in Calls :
        LET s == start_location[c]
            e == end_location[c]
            missing == s = Empty \/ e = Empty
            invalid == s \notin Locations \/ e \notin Locations
            nopath == find_path(s, e) = NotFound
        IN  pc[c] # "idle" =>
              /\ missing => Returned(c) /\ Kind(c) = "missing"
              /\ (~missing /\ invalid) => Returned(c) /\ Kind(c) = "invalid"
              /\ (~missing /\ ~invalid /\ nopath) => Returned(c) /\ Kind(c) = "no_path"
              /\ (~missing /\ ~invalid /\ ~nopath /\ Returned(c)) => Kind(c) \notin ErrorKinds
              /\ (Returned(c) /\ Kind(c) \in ErrorKinds) =>
                    /\ result[c].map_file = NoFile
                    /\ result[c].voice_text = <<>>
                    /\ result[c].message.route = <<>>
                    /\ rendered[c] = <<>>
                    /\ voice_instructions[c] = <<>>

\* Both checks fail (an empty start, an end that is no location): the first
\* one is reported.
C2_Witness ==
    /\ Returned(1)
    /\ start_location[1] = Empty
    /\ end_location[1] \in AbsentKeys
    /\ Kind(1) = "missing"

\* C4: for every location x, find_path(x, x) is [x], returned before the
\* queue of the search exists, its distance is zero, and navigate(x, x, _)
\* answers with the "already there" message alone: no instructions, no map,
\* the renderer not called.
C4_SameLocation ==
    /\ \A x \in Locations :
          /\ find_path(x, x) = <<x>>
          /\ FindPathEntry(x, x).done
          /\ FindPathEntry(x, x).queue = <<>>
          /\ FindPathRun(x, x).visited = {}
          /\ calculate_distance(find_path(x, x)) = 0
    /\ \A c \in Calls :
          (pc[c] # "idle" /\ start_location[c] \in Locations
              /\ start_location[c] = end_location[c]) =>
              /\ Returned(c)
              /\ result[c] = Result(Message("already", start_location[c], "", <<>>),
                                    NoFile, <<>>)
              /\ result[c].message.distance = 0
              /\ voice_instructions[c] = <<>>
              /\ rendered[c] = <<>>
              /\ said[c] = IF enable_voice[c]
                           THEN <<Text("already", 0, start_location[c], "")>>
                           ELSE <<>>

\* navigate(x, x, True) has returned and its one announcement was spoken.
C4_Witness ==
    /\ Returned(1)
    /\ start_location[1] \in Locations
    /\ start_location[1] = end_location[1]
    /\ enable_voice[1]
    /\ Len(engine) = 1

\* C5 as stated: after a successful navigate between different locations the
\* number of instructions equals the number of locations of the path, the
\* first names the start and the last names the end.
C5_InstructionCountIsPathLength ==
    \A c \in Calls :
        RouteReturned(c) =>
            /\ Len(voice_instructions[c]) = Len(path[c])
            /\ Head(voice_instructions[c]).place = start_location[c]
            /\ Last(voice_instructions[c]).place = end_location[c]

\* C5 amended: with narration enabled the instructions are one more than the
\* locations of the path (the start entry, one entry per hop, the
\* destination entry), the first names the start, the last names the end and
\* the k-th hop names the k-th location after the start; with narration
\* disabled there are none, and the text is the "disabled" notice.
C5_InstructionCount ==
    \A c \in Calls :
        RouteReturned(c) =>
            LET vi == voice_instructions[c]
            IN  IF enable_voice[c]
                THEN /\ Len(vi) = Len(path[c]) + 1
                     /\ Head(vi) = Text("start", 0, start_location[c], "")
                     /\ Last(vi) = Text("destination", 0, end_location[c], "")
                     /\ \A k \in 1..(Len(path[c]) - 1) :
                            vi[k + 1] = Text("step", k, path[c][k + 1], "")
                     /\ result[c].voice_text = vi
                ELSE /\ vi = <<>>
                     /\ result[c].voice_text = <<Text("voice_disabled", 0, "", "")>>

\* A narrated route over three locations: four instructions.
C5_Witness ==
    /\ RouteReturned(1)
    /\ enable_voice[1]
    /\ Len(path[1]) = 3
    /\ Len(result[1].voice_text) = 4

\* C6 as stated: in a successful navigate, speak_async and the map renderer
\* are both called when narration is enabled and neither is called when it
\* is disabled.
C6_CollaboratorsOnlyIfEnabled ==
    \A c \in Calls :
        RouteReturned(c) =>
            IF enable_voice[c]
            THEN said[c] # <<>> /\ rendered[c] # <<>>
            ELSE said[c] = <<>> /\ rendered[c] = <<>>

\* C6 amended: in a navigate that returns a route, speak_async is called if
\* and only if narration is enabled, the map renderer is called once with the
\* route whether narration is enabled or not, and neither is called for a
\* route before find_path has returned it.
C6_VoiceOnlyIfEnabledMapAlways ==
    \A c \in Calls :
        /\ RouteReturned(c) =>
              /\ said[c] # <<>> <=> enable_voice[c]
              /\ rendered[c] = <<path[c]>>
        /\ rendered[c] # <<>> => path[c] # NotFound /\ path[c] = find_path(start_location[c], end_location[c])
        /\ (said[c] # <<>> /\ start_location[c] # end_location[c]) => path[c] # NotFound

\* A route returned with narration disabled: nothing said, the map rendered.
C6_Witness ==
    /\ RouteReturned(1)
    /\ ~enable_voice[1]
    /\ said[1] = <<>>
    /\ rendered[1] = <<path[1]>>
    /\ result[1].map_file = MapFile

\* C7: a failure of the voice or of the rendering changes nothing of what
\* navigate returns and never leaves navigate as an exception: each call that
\* found a route returns, and returns the result of a run without failures.
C7_SideEffectFailuresInvisible ==
    \A c \in Calls :
        /\ pc[c] # "raised"
        /\ RouteReturned(c) =>
              result[c] = Result(Message("success", "", "", path[c]), MapFile,
                                 VoiceText(voice_instructions[c]))

\* C10: the utterances of one call reach the engine in the order in which
\* navigate dispatched them.
C10_UtterancesInDispatchOrder ==
    \A i, j \in 1..Len(engine) :
        (i < j /\ engine[i].call = engine[j].call) => engine[i].n < engine[j].n

-----------------------------------------------------------------------------
(* Properties of concurrent calls (ConcurrentSpec)                         *)

\* The message navigate(s, e, _) returns when no other call is running.
MessageAlone(s, e) ==
    IF s = Empty \/ e = Empty THEN Message("missing", "", "", <<>>)
    ELSE IF s \notin Locations \/ e \notin Locations THEN Message("invalid", "", "", <<>>)
    ELSE IF s = e THEN Message("already", s, "", <<>>)
    ELSE Message("success", "", "", find_path(s, e))

\* C8: calls do not interact: each call returns the message it returns
\* alone, and what the engine is given for one call is what it is given when
\* that call runs alone, with nothing of another call in between.
C8_CallsIndependent ==
    /\ \A c \in Calls :
          Returned(c) => result[c].message = MessageAlone(start_location[c], end_location[c])
    /\ \A i, j, k \in 1..Len(engine) :
          (i < k /\ k < j /\ engine[i].call = engine[j].call)
              => engine[k].call = engine[i].call

====
